---- MODULE Spec2Model ----
(***************************************************************************)
(* LRU-K replacer of BusTub (src/buffer/lru_k_replacer.cpp).               *)
(*                                                                         *)
(* The state is the replacer object: replacer_size_, k_, node_store_,      *)
(* current_timestamp_ and curr_size_.  Every public method is one action   *)
(* (each runs under latch_ from its first read to its return).  The        *)
(* variable call records the last call: its arguments, whether it threw,   *)
(* what it returned and the node it erased.                                *)
(*                                                                         *)
(* ConcSpec runs the same methods from several threads, statement by       *)
(* statement: latch_ is the mutex and thread[t] holds the call thread t is *)
(* in, its position and its locals.  Spec leaves both alone.               *)
(*                                                                         *)
(* The variable lru is a plain LRU replacer of the same capacity that is   *)
(* given every call a replacer constructed with k = 1 is given; it is the  *)
(* reference such a replacer is compared with.                             *)
(*                                                                         *)
(* lru_k_replacer.h is not part of the available sources: LRUKNode, its    *)
(* BackwardKDistance and the initial values of the counters follow the     *)
(* written specification of the replacer.                                  *)
(***************************************************************************)
EXTENDS Integers, Sequences, FiniteSets, TLC

VARIABLES replacer_size_, k_, node_store_, current_timestamp_, curr_size_, call,
          latch_, thread, lru

vars == <<replacer_size_, k_, node_store_, current_timestamp_, curr_size_, call,
          latch_, thread, lru>>

\* latch_ and the position of every calling thread
conc == <<latch_, thread>>

state == <<replacer_size_, k_, node_store_, current_timestamp_, curr_size_>>

----------------------------------------------------------------------------
(* Bounds of the model *)

\* RecordAccess is not taken once the clock has reached MaxClock
MaxClock == 4

\* frame ids 0..MaxFrame are offered to the methods (next to -1 and 99)
MaxFrame == 1

\* the replacer is constructed with k in 1..MaxK
MaxK == 3

\* the threads of ConcSpec start no RecordAccess that would take the clock
\* beyond ConcMaxClock
ConcMaxClock == 2

\* capacities the replacer is constructed with: MaxFrame makes the largest
\* offered id the first out-of-range one, 8 is the capacity of the
\* documented scenarios
Capacities == {MaxFrame, 8}

\* frame ids passed by the callers
FrameIds == (-1 .. MaxFrame) \cup {99}

----------------------------------------------------------------------------
(* Program constants *)

\* std::numeric_limits<size_t>::max(); the model's size_t is 31 bits wide
SIZE_MAX == 2147483647

\* frame_id_t victim_frame_id = -1, turned into std::nullopt on return
NoVictim == -1

----------------------------------------------------------------------------
(* Helpers *)

\* static_cast<size_t>(frame_id): a negative frame_id_t wraps to the top
CastSizeT(x) == IF x < 0 THEN SIZE_MAX + (x + 1) ELSE x

InvalidFrameNoCast(frame_id) == frame_id >= replacer_size_

\* if (static_cast<size_t>(frame_id) >= replacer_size_) throw ...
InvalidFrame(frame_id) == CastSizeT(frame_id) >= replacer_size_

\* LRUKNode(frame_id, k_): empty history, not evictable
LRUKNode(fid, k) ==
    [fid_ |-> fid, k_ |-> k, history_ |-> <<>>, is_evictable_ |-> FALSE]

\* the value of call.erased when a call erased nothing
NoNode == LRUKNode(NoVictim, 0)

\* LRUKNode::BackwardKDistance(current_timestamp): +inf below k accesses,
\* else the time since the k-th most recent access (history_[k-1], 0-based)
BackwardKDistance(node, now) ==
    IF Len(node.history_) < node.k_ THEN SIZE_MAX
    ELSE now - node.history_[node.k_]

\* history_.push_front(t)
PushFront(h, t) == <<t>> \o h

\* history_.pop_back()
PopBack(h) == SubSeq(h, 1, Len(h) - 1)

\* history_.front() / history_.back()
Front(h) == h[1]

Back(h) == h[Len(h)]

\* curr_size_-- on a size_t
Dec(n) == IF n = 0 THEN SIZE_MAX ELSE n - 1

EraseKeepsNode(store, fid) == [store EXCEPT ![fid].is_evictable_ = FALSE]

\* node_store_.erase(it)
Erase(store, fid) == [f \in (DOMAIN store) \ {fid} |-> store[f]]

\* the orders in which for (const auto &pair : node_store_) may visit the map
IterationOrders(store) ==
    LET S == DOMAIN store
        n == Cardinality(S)
    IN  {o \in [1 .. n -> S] : \A i, j \in 1 .. n : o[i] = o[j] => i = j}

\* record of a call: erased is the node the call erased (NoNode if none),
\* popped the timestamp its pop_back dropped (0 if none)
Called(op, frame_id, flag, threw, ret, erased) ==
    [op |-> op, frame_id |-> frame_id, set_evictable |-> flag,
     threw |-> threw, ret |-> ret, erased |-> erased, popped |-> 0]

\* the threads of ConcSpec
Threads == {"t1", "t2"}

\* a thread that is in no call: thread[t] holds the position (pc), the
\* method and arguments, the locals victim_frame_id and whether
\* SetEvictable flipped the flag, the outcome, and the replacer state the
\* thread found when it took latch_ (found)
Idle ==
    [pc |-> "idle", op |-> "none", frame_id |-> NoVictim,
     set_evictable |-> FALSE, victim_frame_id |-> NoVictim,
     flipped |-> FALSE, threw |-> FALSE, ret |-> 0, found |-> << >>]

----------------------------------------------------------------------------
(* The plain LRU replacer a replacer with k = 1 is compared with: the      *)
(* tracked frames from the most to the least recently accessed, the set of *)
(* the evictable ones, and the outcome of the last call                    *)

LruReplacer ==
    [order |-> << >>, evictable |-> {}, threw |-> FALSE, ret |-> 0]

\* the sequence without the frame
LruWithout(order, frame_id) == SelectSeq(order, LAMBDA f : f # frame_id)

LruTracked(l) == {l.order[i] : i \in DOMAIN l.order}

\* the evictable frame that was accessed least recently: the last evictable
\* one of the order
LruVictim(l) ==
    l.order[CHOOSE i \in DOMAIN l.order :
              /\ l.order[i] \in l.evictable
              /\ \A j \in DOMAIN l.order : l.order[j] \in l.evictable => j <= i]

\* a frame id outside [0, capacity)
LruInvalid(frame_id, capacity) == frame_id < 0 \/ frame_id >= capacity

LruReturn(l, ret) == [l EXCEPT !.threw = FALSE, !.ret = ret]

LruThrow(l) == [l EXCEPT !.threw = TRUE, !.ret = 0]

\* the reference after one call
LruApply(l, capacity, op, frame_id, set_evictable) ==
    IF op = "Size" THEN LruReturn(l, Cardinality(l.evictable))
    ELSE IF op = "Evict"
    THEN IF l.evictable = {} THEN LruReturn(l, NoVictim)
         ELSE LET victim == LruVictim(l)
              IN  [order |-> LruWithout(l.order, victim),
                   evictable |-> l.evictable \ {victim},
                   threw |-> FALSE, ret |-> victim]
    ELSE IF LruInvalid(frame_id, capacity) THEN LruThrow(l)
    ELSE IF op = "RecordAccess"
    THEN [LruReturn(l, 0) EXCEPT
            !.order = <<frame_id>> \o LruWithout(l.order, frame_id)]
    ELSE IF frame_id \notin LruTracked(l) THEN LruReturn(l, 0)
    ELSE IF op = "SetEvictable"
    THEN [LruReturn(l, 0) EXCEPT
            !.evictable = IF set_evictable THEN @ \cup {frame_id}
                          ELSE @ \ {frame_id}]
    ELSE IF frame_id \notin l.evictable THEN LruThrow(l)
    ELSE [LruReturn(l, 0) EXCEPT
            !.order = LruWithout(l.order, frame_id),
            !.evictable = @ \ {frame_id}]

\* the reference is given the call the replacer is given; it stands next to
\* a replacer constructed with k = 1 only
Reference(op, frame_id, set_evictable) ==
    lru' = IF k_ = 1
           THEN LruApply(lru, replacer_size_, op, frame_id, set_evictable)
           ELSE lru

----------------------------------------------------------------------------
(* LRUKReplacer::LRUKReplacer(num_frames, k) *)

Init ==
    /\ replacer_size_ \in Capacities
    /\ k_ \in 1 .. MaxK
    /\ node_store_ = << >>
    /\ current_timestamp_ = 0
    /\ curr_size_ = 0
    /\ call = Called("Construct", NoVictim, FALSE, FALSE, 0, NoNode)
    /\ latch_ = "unlocked"
    /\ thread = [t \in Threads |-> Idle]
    /\ lru = LruReplacer

----------------------------------------------------------------------------
(* LRUKReplacer::Evict *)

\* the scan's locals before the loop
ScanStart ==
    [victim_frame_id |-> NoVictim, max_backward_distance |-> 0,
     oldest_timestamp |-> SIZE_MAX]

ScanStepAnyNode(acc, node) ==
    LET backward_distance == BackwardKDistance(node, current_timestamp_)
    IN  IF \/ backward_distance > acc.max_backward_distance
           \/ /\ backward_distance = acc.max_backward_distance
              /\ Front(node.history_) < acc.oldest_timestamp
        THEN [victim_frame_id |-> node.fid_,
              max_backward_distance |-> backward_distance,
              oldest_timestamp |-> Front(node.history_)]
        ELSE acc

ScanStepMinDistance(acc, node) ==
    IF ~node.is_evictable_ THEN acc
    ELSE LET backward_distance == BackwardKDistance(node, current_timestamp_)
         IN  IF \/ acc.victim_frame_id = NoVictim
                \/ backward_distance < acc.max_backward_distance
                \/ /\ backward_distance = acc.max_backward_distance
                   /\ Front(node.history_) < acc.oldest_timestamp
             THEN [victim_frame_id |-> node.fid_,
                   max_backward_distance |-> backward_distance,
                   oldest_timestamp |-> Front(node.history_)]
             ELSE acc

ScanStepLastTieWins(acc, node) ==
    IF ~node.is_evictable_ THEN acc
    ELSE LET backward_distance == BackwardKDistance(node, current_timestamp_)
         IN  IF backward_distance >= acc.max_backward_distance
             THEN [victim_frame_id |-> node.fid_,
                   max_backward_distance |-> backward_distance,
                   oldest_timestamp |-> Front(node.history_)]
             ELSE acc

\* one iteration of the loop over node_store_
ScanStep(acc, node) ==
    IF ~node.is_evictable_ THEN acc
    ELSE LET backward_distance == BackwardKDistance(node, current_timestamp_)
         IN  IF \/ backward_distance > acc.max_backward_distance
                \/ /\ backward_distance = acc.max_backward_distance
                   /\ Front(node.history_) < acc.oldest_timestamp
             THEN [victim_frame_id |-> node.fid_,
                   max_backward_distance |-> backward_distance,
                   oldest_timestamp |-> Front(node.history_)]
             ELSE acc

RECURSIVE Scan(_, _)
\* the whole loop, visiting the map in the given order
Scan(order, acc) ==
    IF order = << >> THEN acc
    ELSE Scan(Tail(order), ScanStep(acc, node_store_[Head(order)]))

EvictEmptyAtOne ==
    /\ UNCHANGED conc
    /\ Reference("Evict", NoVictim, FALSE)
    /\ IF curr_size_ <= 1
       THEN /\ call' = Called("Evict", NoVictim, FALSE, FALSE, NoVictim, NoNode)
            /\ UNCHANGED state
       ELSE \E order \in IterationOrders(node_store_) :
              LET victim_frame_id == Scan(order, ScanStart).victim_frame_id
              IN  IF victim_frame_id # NoVictim
                     /\ victim_frame_id \in DOMAIN node_store_
                  THEN /\ node_store_' = Erase(node_store_, victim_frame_id)
                       /\ curr_size_' = Dec(curr_size_)
                       /\ call' = Called("Evict", NoVictim, FALSE, FALSE,
                                         victim_frame_id,
                                         node_store_[victim_frame_id])
                       /\ UNCHANGED <<replacer_size_, k_, current_timestamp_>>
                  ELSE /\ call' = Called("Evict", NoVictim, FALSE, FALSE,
                                         victim_frame_id, NoNode)
                       /\ UNCHANGED state

Evict ==
    /\ UNCHANGED conc
    /\ Reference("Evict", NoVictim, FALSE)
    /\ IF curr_size_ = 0
       THEN /\ call' = Called("Evict", NoVictim, FALSE, FALSE, NoVictim, NoNode)
            /\ UNCHANGED state
       ELSE \E order \in IterationOrders(node_store_) :
              LET victim_frame_id == Scan(order, ScanStart).victim_frame_id
              IN  IF victim_frame_id # NoVictim
                     /\ victim_frame_id \in DOMAIN node_store_
                  THEN /\ node_store_' = Erase(node_store_, victim_frame_id)
                       /\ curr_size_' = Dec(curr_size_)
                       /\ call' = Called("Evict", NoVictim, FALSE, FALSE,
                                         victim_frame_id,
                                         node_store_[victim_frame_id])
                       /\ UNCHANGED <<replacer_size_, k_, current_timestamp_>>
                  ELSE /\ call' = Called("Evict", NoVictim, FALSE, FALSE,
                                         victim_frame_id, NoNode)
                       /\ UNCHANGED state

----------------------------------------------------------------------------
(* LRUKReplacer::RecordAccess; access_type is not read by the method *)

AccessedPopFront(store, frame_id, now, k) ==
    IF frame_id \notin DOMAIN store
    THEN [f \in (DOMAIN store) \cup {frame_id} |->
            IF f = frame_id
            THEN [LRUKNode(frame_id, k) EXCEPT !.history_ = <<now>>]
            ELSE store[f]]
    ELSE [store EXCEPT ![frame_id].history_ =
            IF Len(PushFront(@, now)) > k
            THEN Tail(PushFront(@, now))
            ELSE PushFront(@, now)]

AccessedPushBack(store, frame_id, now, k) ==
    IF frame_id \notin DOMAIN store
    THEN [f \in (DOMAIN store) \cup {frame_id} |->
            IF f = frame_id
            THEN [LRUKNode(frame_id, k) EXCEPT !.history_ = <<now>>]
            ELSE store[f]]
    ELSE [store EXCEPT ![frame_id].history_ =
            IF Len(Append(@, now)) > k
            THEN Tail(Append(@, now))
            ELSE Append(@, now)]

AccessedNewEvictable(store, frame_id, now, k) ==
    IF frame_id \notin DOMAIN store
    THEN [f \in (DOMAIN store) \cup {frame_id} |->
            IF f = frame_id
            THEN [LRUKNode(frame_id, k) EXCEPT !.history_ = <<now>>,
                                               !.is_evictable_ = TRUE]
            ELSE store[f]]
    ELSE [store EXCEPT ![frame_id].history_ =
            IF Len(PushFront(@, now)) > k
            THEN PopBack(PushFront(@, now))
            ELSE PushFront(@, now)]

\* node_store_ after the access at timestamp now
Accessed(store, frame_id, now, k) ==
    IF frame_id \notin DOMAIN store
    THEN [f \in (DOMAIN store) \cup {frame_id} |->
            IF f = frame_id
            THEN [LRUKNode(frame_id, k) EXCEPT !.history_ = PushFront(@, now)]
            ELSE store[f]]
    ELSE [store EXCEPT ![frame_id].history_ =
            IF Len(PushFront(@, now)) > k
            THEN PopBack(PushFront(@, now))
            ELSE PushFront(@, now)]

RecordAccessTicksBeforeCheck(frame_id) ==
    /\ UNCHANGED conc
    /\ Reference("RecordAccess", frame_id, FALSE)
    /\ current_timestamp_ < MaxClock
    /\ current_timestamp_' = current_timestamp_ + 1
    /\ IF InvalidFrame(frame_id)
       THEN /\ call' =
                 Called("RecordAccess", frame_id, FALSE, TRUE, 0, NoNode)
            /\ UNCHANGED <<replacer_size_, k_, node_store_, curr_size_>>
       ELSE /\ node_store_' =
                 Accessed(node_store_, frame_id, current_timestamp_ + 1, k_)
            /\ call' =
                 [Called("RecordAccess", frame_id, FALSE, FALSE, 0, NoNode)
                    EXCEPT !.popped =
                      IF /\ frame_id \in DOMAIN node_store_
                         /\ Len(node_store_[frame_id].history_) + 1 > k_
                      THEN Back(node_store_[frame_id].history_)
                      ELSE 0]
            /\ UNCHANGED <<replacer_size_, k_, curr_size_>>

RecordAccess(frame_id) ==
    /\ UNCHANGED conc
    /\ Reference("RecordAccess", frame_id, FALSE)
    /\ IF InvalidFrame(frame_id)
       THEN /\ call' = Called("RecordAccess", frame_id, FALSE, TRUE, 0, NoNode)
            /\ UNCHANGED state
       ELSE /\ current_timestamp_ < MaxClock
            /\ current_timestamp_' = current_timestamp_ + 1
            /\ node_store_' =
                 Accessed(node_store_, frame_id, current_timestamp_ + 1, k_)
            /\ call' =
                 [Called("RecordAccess", frame_id, FALSE, FALSE, 0, NoNode)
                    EXCEPT !.popped =
                      IF /\ frame_id \in DOMAIN node_store_
                         /\ Len(node_store_[frame_id].history_) + 1 > k_
                      THEN Back(node_store_[frame_id].history_)
                      ELSE 0]
            /\ UNCHANGED <<replacer_size_, k_, curr_size_>>

----------------------------------------------------------------------------
(* LRUKReplacer::SetEvictable *)

SetEvictableAlwaysCounts(frame_id, set_evictable) ==
    /\ UNCHANGED conc
    /\ Reference("SetEvictable", frame_id, set_evictable)
    /\ IF InvalidFrame(frame_id)
       THEN /\ call' = Called("SetEvictable", frame_id, set_evictable, TRUE, 0,
                              NoNode)
            /\ UNCHANGED state
       ELSE /\ call' = Called("SetEvictable", frame_id, set_evictable, FALSE, 0,
                              NoNode)
            /\ IF frame_id \notin DOMAIN node_store_
               THEN UNCHANGED state
               ELSE /\ node_store_' =
                         [node_store_ EXCEPT ![frame_id].is_evictable_ =
                                                 set_evictable]
                    /\ curr_size_' =
                         IF set_evictable THEN curr_size_ + 1
                         ELSE Dec(curr_size_)
                    /\ UNCHANGED <<replacer_size_, k_, current_timestamp_>>

SetEvictableNoRangeCheck(frame_id, set_evictable) ==
    /\ UNCHANGED conc
    /\ Reference("SetEvictable", frame_id, set_evictable)
    /\ call' = Called("SetEvictable", frame_id, set_evictable, FALSE, 0,
                      NoNode)
    /\ IF frame_id \notin DOMAIN node_store_
       THEN UNCHANGED state
       ELSE IF set_evictable /\ ~node_store_[frame_id].is_evictable_
       THEN /\ node_store_' =
                 [node_store_ EXCEPT ![frame_id].is_evictable_ = TRUE]
            /\ curr_size_' = curr_size_ + 1
            /\ UNCHANGED <<replacer_size_, k_, current_timestamp_>>
       ELSE IF ~set_evictable /\ node_store_[frame_id].is_evictable_
       THEN /\ node_store_' =
                 [node_store_ EXCEPT ![frame_id].is_evictable_ = FALSE]
            /\ curr_size_' = Dec(curr_size_)
            /\ UNCHANGED <<replacer_size_, k_, current_timestamp_>>
       ELSE UNCHANGED state

SetEvictableCreates(frame_id, set_evictable) ==
    /\ UNCHANGED conc
    /\ Reference("SetEvictable", frame_id, set_evictable)
    /\ IF InvalidFrame(frame_id)
       THEN /\ call' = Called("SetEvictable", frame_id, set_evictable, TRUE, 0,
                              NoNode)
            /\ UNCHANGED state
       ELSE LET store ==
                  IF frame_id \in DOMAIN node_store_ THEN node_store_
                  ELSE [f \in (DOMAIN node_store_) \cup {frame_id} |->
                          IF f = frame_id THEN LRUKNode(frame_id, k_)
                          ELSE node_store_[f]]
            IN  /\ call' = Called("SetEvictable", frame_id, set_evictable,
                                  FALSE, 0, NoNode)
                /\ node_store_' =
                     [store EXCEPT ![frame_id].is_evictable_ = set_evictable]
                /\ curr_size_' =
                     IF set_evictable /\ ~store[frame_id].is_evictable_
                     THEN curr_size_ + 1
                     ELSE IF ~set_evictable /\ store[frame_id].is_evictable_
                     THEN Dec(curr_size_)
                     ELSE curr_size_
                /\ UNCHANGED <<replacer_size_, k_, current_timestamp_>>

SetEvictable(frame_id, set_evictable) ==
    /\ UNCHANGED conc
    /\ Reference("SetEvictable", frame_id, set_evictable)
    /\ IF InvalidFrame(frame_id)
       THEN /\ call' = Called("SetEvictable", frame_id, set_evictable, TRUE, 0,
                              NoNode)
            /\ UNCHANGED state
       ELSE /\ call' = Called("SetEvictable", frame_id, set_evictable, FALSE, 0,
                              NoNode)
            /\ IF frame_id \notin DOMAIN node_store_
               THEN UNCHANGED state
               ELSE IF set_evictable /\ ~node_store_[frame_id].is_evictable_
               THEN /\ node_store_' =
                         [node_store_ EXCEPT ![frame_id].is_evictable_ = TRUE]
                    /\ curr_size_' = curr_size_ + 1
                    /\ UNCHANGED <<replacer_size_, k_, current_timestamp_>>
               ELSE IF ~set_evictable /\ node_store_[frame_id].is_evictable_
               THEN /\ node_store_' =
                         [node_store_ EXCEPT ![frame_id].is_evictable_ = FALSE]
                    /\ curr_size_' = Dec(curr_size_)
                    /\ UNCHANGED <<replacer_size_, k_, current_timestamp_>>
               ELSE UNCHANGED state

----------------------------------------------------------------------------
(* LRUKReplacer::Remove *)

RemoveUnchecked(frame_id) ==
    /\ UNCHANGED conc
    /\ Reference("Remove", frame_id, FALSE)
    /\ IF InvalidFrame(frame_id)
       THEN /\ call' = Called("Remove", frame_id, FALSE, TRUE, 0, NoNode)
            /\ UNCHANGED state
       ELSE IF frame_id \notin DOMAIN node_store_
       THEN /\ call' = Called("Remove", frame_id, FALSE, FALSE, 0, NoNode)
            /\ UNCHANGED state
       ELSE /\ node_store_' = Erase(node_store_, frame_id)
            /\ curr_size_' = Dec(curr_size_)
            /\ call' = Called("Remove", frame_id, FALSE, FALSE, 0,
                              node_store_[frame_id])
            /\ UNCHANGED <<replacer_size_, k_, current_timestamp_>>

Remove(frame_id) ==
    /\ UNCHANGED conc
    /\ Reference("Remove", frame_id, FALSE)
    /\ IF InvalidFrame(frame_id)
       THEN /\ call' = Called("Remove", frame_id, FALSE, TRUE, 0, NoNode)
            /\ UNCHANGED state
       ELSE IF frame_id \notin DOMAIN node_store_
       THEN /\ call' = Called("Remove", frame_id, FALSE, FALSE, 0, NoNode)
            /\ UNCHANGED state
       ELSE IF ~node_store_[frame_id].is_evictable_
       THEN /\ call' = Called("Remove", frame_id, FALSE, TRUE, 0, NoNode)
            /\ UNCHANGED state
       ELSE /\ node_store_' = Erase(node_store_, frame_id)
            /\ curr_size_' = Dec(curr_size_)
            /\ call' = Called("Remove", frame_id, FALSE, FALSE, 0,
                              node_store_[frame_id])
            /\ UNCHANGED <<replacer_size_, k_, current_timestamp_>>

----------------------------------------------------------------------------
(* LRUKReplacer::Size *)

Size ==
    /\ UNCHANGED conc
    /\ Reference("Size", NoVictim, FALSE)
    /\ call' = Called("Size", NoVictim, FALSE, FALSE, curr_size_, NoNode)
    /\ UNCHANGED state

----------------------------------------------------------------------------

Next ==
    \/ \E frame_id \in FrameIds : RecordAccess(frame_id)
    \/ \E frame_id \in FrameIds, set_evictable \in BOOLEAN :
         SetEvictable(frame_id, set_evictable)
    \/ Evict
    \/ \E frame_id \in FrameIds : Remove(frame_id)
    \/ Size

Spec == Init /\ [][Next]_vars

----------------------------------------------------------------------------
(* The methods called from several threads, statement by statement *)

\* the replacer state a thread finds when it takes latch_
Found == [node_store_ |-> node_store_,
          current_timestamp_ |-> current_timestamp_,
          curr_size_ |-> curr_size_]

\* calls that will still increment the clock
PendingTicks ==
    Cardinality({u \in Threads : /\ thread[u].op = "RecordAccess"
                                 /\ thread[u].pc \in {"lock", "tick"}})

Goto(t, pc) == thread' = [thread EXCEPT ![t].pc = pc]

\* a thread enters RecordAccess, SetEvictable or Remove: the range check
\* comes before the lock_guard (lines 91-93, 132-134, 173-175)
Invoke(t, op, frame_id, set_evictable) ==
    /\ thread[t].pc = "idle"
    /\ op = "RecordAccess" =>
         (InvalidFrame(frame_id)
            \/ current_timestamp_ + PendingTicks < ConcMaxClock)
    /\ thread' = [thread EXCEPT ![t] =
         [Idle EXCEPT !.pc = IF InvalidFrame(frame_id) THEN "thrown"
                             ELSE "lock",
                      !.op = op, !.frame_id = frame_id,
                      !.set_evictable = set_evictable,
                      !.threw = InvalidFrame(frame_id)]]
    /\ UNCHANGED <<state, call, lru, latch_>>

\* a thread enters Evict or Size, which take no frame id
InvokePlain(t, op) ==
    /\ thread[t].pc = "idle"
    /\ thread' = [thread EXCEPT ![t] = [Idle EXCEPT !.pc = "lock", !.op = op]]
    /\ UNCHANGED <<state, call, lru, latch_>>

\* the exception of the range check leaves the method
Propagate(t) ==
    /\ thread[t].pc = "thrown"
    /\ thread' = [thread EXCEPT ![t] = Idle]
    /\ UNCHANGED <<state, call, lru, latch_>>

AcquireNoExclusion(t) ==
    /\ thread[t].pc = "lock"
    /\ latch_' = t
    /\ thread' = [thread EXCEPT
         ![t].found = Found,
         ![t].pc = CASE thread[t].op = "RecordAccess" -> "tick"
                     [] thread[t].op = "SetEvictable" -> "find"
                     [] thread[t].op = "Remove" -> "find"
                     [] thread[t].op = "Evict" -> "scan"
                     [] thread[t].op = "Size" -> "read"]
    /\ UNCHANGED <<state, call, lru>>

\* std::lock_guard<std::mutex> lock(latch_)
Acquire(t) ==
    /\ thread[t].pc = "lock"
    /\ latch_ = "unlocked"
    /\ latch_' = t
    /\ thread' = [thread EXCEPT
         ![t].found = Found,
         ![t].pc = CASE thread[t].op = "RecordAccess" -> "tick"
                     [] thread[t].op = "SetEvictable" -> "find"
                     [] thread[t].op = "Remove" -> "find"
                     [] thread[t].op = "Evict" -> "scan"
                     [] thread[t].op = "Size" -> "read"]
    /\ UNCHANGED <<state, call, lru>>

\* the lock_guard goes out of scope, on return and on throw
Release(t) ==
    /\ thread[t].pc = "unlock"
    /\ latch_' = "unlocked"
    /\ thread' = [thread EXCEPT ![t] = Idle]
    /\ UNCHANGED <<state, call, lru>>

\* RecordAccess: current_timestamp_++ (line 95)
Tick(t) ==
    /\ thread[t].pc = "tick"
    /\ current_timestamp_' = current_timestamp_ + 1
    /\ Goto(t, "push")
    /\ UNCHANGED <<replacer_size_, k_, node_store_, curr_size_, call, lru, latch_>>

\* RecordAccess: create the node if absent, push_front (lines 99-106)
Push(t) ==
    /\ thread[t].pc = "push"
    /\ LET frame_id == thread[t].frame_id
       IN  IF frame_id \notin DOMAIN node_store_
           THEN /\ node_store_' =
                     [f \in (DOMAIN node_store_) \cup {frame_id} |->
                        IF f = frame_id
                        THEN [LRUKNode(frame_id, k_) EXCEPT !.history_ =
                                PushFront(@, current_timestamp_)]
                        ELSE node_store_[f]]
                /\ Goto(t, "unlock")
           ELSE /\ node_store_' =
                     [node_store_ EXCEPT ![frame_id].history_ =
                        PushFront(@, current_timestamp_)]
                /\ Goto(t, "trim")
    /\ UNCHANGED <<replacer_size_, k_, current_timestamp_, curr_size_, call, lru,
                   latch_>>

\* RecordAccess: if (history_.size() > k_) pop_back (lines 107-109)
Trim(t) ==
    /\ thread[t].pc = "trim"
    /\ LET frame_id == thread[t].frame_id
       IN  node_store_' =
             IF Len(node_store_[frame_id].history_) > k_
             THEN [node_store_ EXCEPT ![frame_id].history_ = PopBack(@)]
             ELSE node_store_
    /\ Goto(t, "unlock")
    /\ UNCHANGED <<replacer_size_, k_, current_timestamp_, curr_size_, call, lru,
                   latch_>>

\* SetEvictable: find, then set the flag (lines 136-143, 146-148)
Flag(t) ==
    /\ thread[t].pc = "find"
    /\ thread[t].op = "SetEvictable"
    /\ LET frame_id == thread[t].frame_id
           set_evictable == thread[t].set_evictable
       IN  IF frame_id \notin DOMAIN node_store_
           THEN /\ Goto(t, "unlock")
                /\ UNCHANGED node_store_
           ELSE IF set_evictable # node_store_[frame_id].is_evictable_
           THEN /\ node_store_' =
                     [node_store_ EXCEPT ![frame_id].is_evictable_ =
                                             set_evictable]
                /\ thread' = [thread EXCEPT ![t].pc = "count",
                                            ![t].flipped = TRUE]
           ELSE /\ Goto(t, "unlock")
                /\ UNCHANGED node_store_
    /\ UNCHANGED <<replacer_size_, k_, current_timestamp_, curr_size_, call, lru,
                   latch_>>

\* SetEvictable: curr_size_++ or curr_size_-- (lines 144, 149)
Count(t) ==
    /\ thread[t].pc = "count"
    /\ curr_size_' = IF thread[t].set_evictable THEN curr_size_ + 1
                     ELSE Dec(curr_size_)
    /\ Goto(t, "unlock")
    /\ UNCHANGED <<replacer_size_, k_, node_store_, current_timestamp_, call, lru,
                   latch_>>

RemoveFindLeaksLatch(t) ==
    /\ thread[t].pc = "find"
    /\ thread[t].op = "Remove"
    /\ LET frame_id == thread[t].frame_id
       IN  IF frame_id \notin DOMAIN node_store_
           THEN Goto(t, "unlock")
           ELSE IF ~node_store_[frame_id].is_evictable_
           THEN thread' = [thread EXCEPT ![t] = Idle]
           ELSE Goto(t, "erase")
    /\ UNCHANGED <<state, call, lru, latch_>>

\* Remove: find, throw on a record that is not evictable (lines 177-185)
RemoveFind(t) ==
    /\ thread[t].pc = "find"
    /\ thread[t].op = "Remove"
    /\ LET frame_id == thread[t].frame_id
       IN  IF frame_id \notin DOMAIN node_store_
           THEN Goto(t, "unlock")
           ELSE IF ~node_store_[frame_id].is_evictable_
           THEN thread' = [thread EXCEPT ![t].pc = "unlock",
                                         ![t].threw = TRUE]
           ELSE Goto(t, "erase")
    /\ UNCHANGED <<state, call, lru, latch_>>

\* Evict: the size check and the loop (lines 44-64)
ScanStore(t) ==
    /\ thread[t].pc = "scan"
    /\ IF curr_size_ = 0
       THEN thread' = [thread EXCEPT ![t].pc = "unlock",
                                     ![t].ret = NoVictim]
       ELSE \E order \in IterationOrders(node_store_) :
              LET victim_frame_id == Scan(order, ScanStart).victim_frame_id
              IN  thread' = [thread EXCEPT
                    ![t].pc = IF victim_frame_id # NoVictim
                              THEN "erase" ELSE "unlock",
                    ![t].victim_frame_id = victim_frame_id,
                    ![t].ret = victim_frame_id]
    /\ UNCHANGED <<state, call, lru, latch_>>

\* Evict: find and erase the victim (lines 66-69); Remove: erase (line 187)
EraseNode(t) ==
    /\ thread[t].pc = "erase"
    /\ LET fid == IF thread[t].op = "Evict" THEN thread[t].victim_frame_id
                  ELSE thread[t].frame_id
       IN  IF fid \in DOMAIN node_store_
           THEN /\ node_store_' = Erase(node_store_, fid)
                /\ Goto(t, "dec")
           ELSE /\ UNCHANGED node_store_
                /\ Goto(t, "unlock")
    /\ UNCHANGED <<replacer_size_, k_, current_timestamp_, curr_size_, call, lru,
                   latch_>>

\* Evict and Remove: curr_size_-- (lines 70, 188)
DecSize(t) ==
    /\ thread[t].pc = "dec"
    /\ curr_size_' = Dec(curr_size_)
    /\ Goto(t, "unlock")
    /\ UNCHANGED <<replacer_size_, k_, node_store_, current_timestamp_, call, lru,
                   latch_>>

\* Size: return curr_size_ (line 201)
ReadSize(t) ==
    /\ thread[t].pc = "read"
    /\ thread' = [thread EXCEPT ![t].pc = "unlock", ![t].ret = curr_size_]
    /\ UNCHANGED <<state, call, lru, latch_>>

\* frame ids the threads pass: two legal ones and one that is out of range
ConcFrameIds == {-1, 0, 1}

\* ConcSpec starts from the replacer of the documented scenarios (capacity
\* 8), built with k = 1 or k = 2
ConcInit ==
    /\ Init
    /\ replacer_size_ = 8
    /\ k_ \in {1, 2}

ConcNext ==
    \E t \in Threads :
      \/ \E frame_id \in ConcFrameIds : Invoke(t, "RecordAccess", frame_id, FALSE)
      \/ \E frame_id \in ConcFrameIds, set_evictable \in BOOLEAN :
           Invoke(t, "SetEvictable", frame_id, set_evictable)
      \/ \E frame_id \in ConcFrameIds : Invoke(t, "Remove", frame_id, FALSE)
      \/ \E op \in {"Evict", "Size"} : InvokePlain(t, op)
      \/ Propagate(t)
      \/ Acquire(t)
      \/ Tick(t)
      \/ Push(t)
      \/ Trim(t)
      \/ Flag(t)
      \/ Count(t)
      \/ RemoveFind(t)
      \/ ScanStore(t)
      \/ EraseNode(t)
      \/ DecSize(t)
      \/ ReadSize(t)
      \/ Release(t)

ConcSpec == ConcInit /\ [][ConcNext]_vars

\* the steps of thread t that wait for nothing
Proceed(t) ==
    \/ Propagate(t)
    \/ Tick(t)
    \/ Push(t)
    \/ Trim(t)
    \/ Flag(t)
    \/ Count(t)
    \/ RemoveFind(t)
    \/ ScanStore(t)
    \/ EraseNode(t)
    \/ DecSize(t)
    \/ ReadSize(t)
    \/ Release(t)

\* fair scheduling: a thread that can proceed does, and a thread that finds
\* latch_ free again and again gets it; no thread has to start a call
FairConcSpec ==
    /\ ConcSpec
    /\ \A t \in Threads : WF_vars(Proceed(t))
    /\ \A t \in Threads : SF_vars(Acquire(t))

----------------------------------------------------------------------------
(* Vocabulary of the properties *)

Tracked == DOMAIN node_store_

EvictableFrames == {f \in Tracked : node_store_[f].is_evictable_}

\* the call that led to the next state
Returned(op) == call'.op = op /\ ~call'.threw

Threw(op) == call'.op = op /\ call'.threw

\* Evict() returned frame v
Evicted(v) == Returned("Evict") /\ call'.ret = v /\ v # NoVictim

\* fewer than k retained accesses: infinite backward k-distance
InfiniteDistance(f) == Len(node_store_[f].history_) < k_

\* clock_now minus the k-th most recent access
FiniteDistance(f) == current_timestamp_ - node_store_[f].history_[k_]

\* the backward k-distance of g is at most that of f
DistanceAtMost(g, f) ==
    \/ InfiniteDistance(f)
    \/ /\ ~InfiniteDistance(g)
       /\ FiniteDistance(g) <= FiniteDistance(f)

OutOfRange(frame_id) == frame_id < 0 \/ frame_id >= replacer_size_

----------------------------------------------------------------------------
(* C1 *)

\* C1: in every reachable state curr_size_, and the value a Size() call just
\* returned, equal the number of tracked records whose evictable flag is set
C1_SizeCountsEvictable ==
    /\ curr_size_ = Cardinality(EvictableFrames)
    /\ call.op = "Size" => call.ret = Cardinality(EvictableFrames)

\* Size() returned 1 while a second, non-evictable record is tracked
C1_Witness ==
    /\ call.op = "Size"
    /\ call.ret = 1
    /\ Cardinality(Tracked) = 2

----------------------------------------------------------------------------
(* C2 *)

\* C2: the frame Evict() returns was evictable and no evictable record had a
\* larger backward k-distance (infinite below k retained accesses, else
\* clock minus the k-th most recent access)
C2_EvictMaxDistance ==
    [][\A v \in FrameIds :
         Evicted(v) =>
           /\ v \in EvictableFrames
           /\ \A g \in EvictableFrames : DistanceAtMost(g, v)]_vars

\* Evict() returned a frame with fewer than k accesses although an evictable
\* frame with k accesses, accessed earlier, was a candidate too
C2_Witness ==
    /\ call.op = "Evict"
    /\ call.ret # NoVictim
    /\ Len(call.erased.history_) < k_
    /\ \E g \in EvictableFrames :
         /\ Len(node_store_[g].history_) = k_
         /\ Front(node_store_[g].history_) < Back(call.erased.history_)

----------------------------------------------------------------------------
(* C3 *)

\* C3: among the evictable records tied with the victim for the maximum
\* backward k-distance, the victim has the smallest oldest retained
\* timestamp (history.back())
C3_TieBreakOldestRetained ==
    [][\A v \in FrameIds :
         Evicted(v) =>
           \A g \in EvictableFrames :
             (DistanceAtMost(g, v) /\ DistanceAtMost(v, g)) =>
               Back(node_store_[v].history_) <= Back(node_store_[g].history_)]_vars

----------------------------------------------------------------------------
(* C4 *)

\* C4 as stated: when Evict() returns a frame with fewer than k accesses, no
\* evictable frame has k or more accesses
C4_FewerNeverChosen ==
    [][\A v \in FrameIds :
         (Evicted(v) /\ Len(node_store_[v].history_) < k_) =>
           \A g \in EvictableFrames : Len(node_store_[g].history_) < k_]_vars

\* C4 amended: when Evict() returns a frame with k or more accesses, every
\* evictable frame has k or more accesses
C4_FullNeverChosen ==
    [][\A v \in FrameIds :
         (Evicted(v) /\ Len(node_store_[v].history_) >= k_) =>
           \A g \in EvictableFrames : Len(node_store_[g].history_) >= k_]_vars

\* Evict() with k >= 2 returned a frame with k accesses, chosen among
\* several evictable frames that all have k accesses
C4_Witness ==
    /\ call.op = "Evict"
    /\ call.ret # NoVictim
    /\ k_ >= 2
    /\ Len(call.erased.history_) >= k_
    /\ EvictableFrames # {}

----------------------------------------------------------------------------
(* C5 *)

\* C5: a record that leaves node_store_ was evictable and left through the
\* Evict() that returned it or the Remove() that named it; Evict() returns
\* evictable frames only
C5_OnlyEvictableLeaves ==
    [][/\ \A f \in Tracked :
            f \notin DOMAIN node_store_' =>
              /\ node_store_[f].is_evictable_
              /\ \/ Evicted(f)
                 \/ Returned("Remove") /\ call'.frame_id = f
       /\ \A v \in FrameIds : Evicted(v) => v \in EvictableFrames]_vars

\* Evict() returned a frame with k accesses while a non-evictable frame with
\* infinite distance and an older access stayed tracked
C5_Witness ==
    /\ call.op = "Evict"
    /\ call.ret # NoVictim
    /\ Len(call.erased.history_) = k_
    /\ \E g \in Tracked \ EvictableFrames :
         /\ Len(node_store_[g].history_) < k_
         /\ Front(node_store_[g].history_) < Front(call.erased.history_)

----------------------------------------------------------------------------
(* C6 *)

HistoryBounded ==
    \A f \in Tracked :
      /\ 1 <= Len(node_store_[f].history_)
      /\ Len(node_store_[f].history_) <= k_

\* C6: every tracked history holds between 1 and k timestamps, and a
\* RecordAccess on a history of k timestamps drops the back entry and keeps
\* the others behind the new timestamp
C6_HistoryBounded ==
    [][/\ HistoryBounded'
       /\ \A f \in Tracked :
            (/\ Returned("RecordAccess")
             /\ call'.frame_id = f
             /\ Len(node_store_[f].history_) = k_) =>
              /\ node_store_'[f].history_ =
                   <<current_timestamp_'>> \o
                     SubSeq(node_store_[f].history_, 1, k_ - 1)
              /\ call'.popped = Back(node_store_[f].history_)]_vars

\* a RecordAccess with k = 3 dropped a timestamp from a full history
C6_Witness ==
    /\ call.op = "RecordAccess"
    /\ ~call.threw
    /\ call.popped > 0
    /\ k_ = 3
    /\ Len(node_store_[call.frame_id].history_) = 3

----------------------------------------------------------------------------
(* C7 *)

\* C7: Evict() returns nullopt exactly when no tracked record is evictable,
\* which is when curr_size_ is 0, and then it changes nothing
C7_EvictNoneIffEmpty ==
    [][call'.op = "Evict" =>
         /\ ~call'.threw
         /\ call'.ret = NoVictim <=> EvictableFrames = {}
         /\ call'.ret = NoVictim <=> curr_size_ = 0
         /\ call'.ret = NoVictim => UNCHANGED state]_vars

\* Evict() returned nullopt while records were tracked
C7_Witness ==
    /\ call.op = "Evict"
    /\ call.ret = NoVictim
    /\ Cardinality(Tracked) >= 2

----------------------------------------------------------------------------
(* C8 *)

\* C8: Remove of a tracked, non-evictable frame throws and changes nothing
C8_RemoveNonEvictableThrows ==
    [][\A f \in Tracked :
         (/\ call'.op = "Remove"
          /\ call'.frame_id = f
          /\ ~node_store_[f].is_evictable_) =>
           /\ call'.threw
           /\ UNCHANGED state]_vars

\* Remove threw on a tracked, non-evictable frame next to an evictable one
C8_Witness ==
    /\ call.op = "Remove"
    /\ call.threw
    /\ call.frame_id \in Tracked \ EvictableFrames
    /\ curr_size_ > 0

----------------------------------------------------------------------------
(* C9 *)

\* C9: RecordAccess, SetEvictable and Remove with a frame id outside
\* [0, capacity) throw and change nothing, and every tracked frame id lies
\* in [0, capacity)
C9_OutOfRangeThrows ==
    [][/\ (/\ call'.op \in {"RecordAccess", "SetEvictable", "Remove"}
           /\ OutOfRange(call'.frame_id)) =>
            /\ call'.threw
            /\ UNCHANGED state
       /\ \A f \in DOMAIN node_store_' : ~OutOfRange(f)]_vars

\* RecordAccess(-1) threw on a replacer that tracks records
C9_Witness ==
    /\ call.op = "RecordAccess"
    /\ call.threw
    /\ call.frame_id < 0
    /\ Tracked # {}
    /\ current_timestamp_ > 0

----------------------------------------------------------------------------
(* C10 *)

Scenario4(c) ==
    /\ replacer_size_ = 8
    /\ k_ = 2
    /\ c.op = "SetEvictable"
    /\ c.frame_id = 99
    /\ c.set_evictable
    /\ 99 \notin Tracked

\* C10 as stated: with capacity 8 and k = 2, SetEvictable(99, true) on the
\* never accessed frame 99 completes without a fault and changes nothing
C10_SetEvictable99NoOp ==
    [][Scenario4(call') => (~call'.threw /\ UNCHANGED state)]_vars

\* C10 amended: with capacity 8 and k = 2, SetEvictable(99, true) throws
\* the invalid frame id exception and changes nothing
C10_SetEvictable99Throws ==
    [][Scenario4(call') => (call'.threw /\ UNCHANGED state)]_vars

\* SetEvictable(99, true) threw on a capacity 8, k = 2 replacer of size 1
C10_Witness ==
    /\ Scenario4(call)
    /\ call.threw
    /\ curr_size_ = 1

----------------------------------------------------------------------------
(* C11 *)

\* C11: on a tracked frame SetEvictable changes curr_size_ by +1 exactly on
\* a false-to-true transition and by -1 exactly on a true-to-false one, and
\* a SetEvictable that repeats the previous call changes nothing
C11_SetEvictableDelta ==
    [][\A f \in Tracked :
         (Returned("SetEvictable") /\ call'.frame_id = f) =>
           LET was == node_store_[f].is_evictable_
               flag == call'.set_evictable
           IN  /\ f \in DOMAIN node_store_'
               /\ node_store_'[f].is_evictable_ = flag
               /\ (~was /\ flag) <=> curr_size_' = curr_size_ + 1
               /\ (was /\ ~flag) <=> curr_size_' = curr_size_ - 1
               /\ was = flag => UNCHANGED state
               /\ (/\ call.op = "SetEvictable"
                   /\ ~call.threw
                   /\ call.frame_id = f
                   /\ call.set_evictable = flag) => UNCHANGED state]_vars

\* SetEvictable(f, true) returned on a replacer of size 1 where f is the
\* evictable frame and a second frame is tracked
C11_Witness ==
    /\ call.op = "SetEvictable"
    /\ ~call.threw
    /\ call.set_evictable
    /\ EvictableFrames = {call.frame_id}
    /\ curr_size_ = 1
    /\ Cardinality(Tracked) = 2

----------------------------------------------------------------------------
(* C12 *)

\* C12: SetEvictable and Remove with an in-range id that has no record
\* return without a fault and change nothing
C12_UntrackedNoOp ==
    [][\A f \in FrameIds \ Tracked :
         (/\ call'.op \in {"SetEvictable", "Remove"}
          /\ call'.frame_id = f
          /\ ~OutOfRange(f)) =>
           /\ ~call'.threw
           /\ UNCHANGED state]_vars

\* Remove of an in-range untracked frame returned on a replacer that tracks
\* an evictable record
C12_Witness ==
    /\ call.op = "Remove"
    /\ ~call.threw
    /\ ~OutOfRange(call.frame_id)
    /\ call.frame_id \notin Tracked
    /\ call.erased = NoNode
    /\ curr_size_ = 1

----------------------------------------------------------------------------
(* C13 *)

\* C13: an Evict() that returns v and a Remove(v) that erases lower
\* curr_size_ by 1, delete exactly v's record and leave the others and the
\* clock alone; a RecordAccess of an untracked frame creates a history that
\* holds the new timestamp only
C13_RemovalSymmetry ==
    [][/\ \A v \in Tracked :
            (Evicted(v) \/ (Returned("Remove") /\ call'.frame_id = v)) =>
              /\ curr_size_' = curr_size_ - 1
              /\ DOMAIN node_store_' = Tracked \ {v}
              /\ \A g \in Tracked \ {v} : node_store_'[g] = node_store_[g]
              /\ call'.erased = node_store_[v]
              /\ current_timestamp_' = current_timestamp_
       /\ \A f \in FrameIds \ Tracked :
            (Returned("RecordAccess") /\ call'.frame_id = f) =>
              /\ f \in DOMAIN node_store_'
              /\ node_store_'[f].history_ = <<current_timestamp_'>>
              /\ current_timestamp_' > current_timestamp_]_vars

\* on a replacer with a single legal frame id and k = 3, the second
\* RecordAccess left a history of one timestamp: the record of the first
\* access was deleted in between
C13_Witness ==
    /\ Cardinality({f \in FrameIds : ~OutOfRange(f)}) = 1
    /\ k_ = 3
    /\ call.op = "RecordAccess"
    /\ ~call.threw
    /\ current_timestamp_ = 2
    /\ call.frame_id \in Tracked
    /\ node_store_[call.frame_id].history_ = <<2>>

----------------------------------------------------------------------------
(* C14 *)

\* C14: current_timestamp_ grows by exactly 1 in a RecordAccess that
\* returns, which stores the new value in front of the history, above every
\* timestamp stored before; no other call, and no call that throws,
\* changes it
C14_ClockTicksOnAccess ==
    [][/\ Returned("RecordAccess") =>
            /\ current_timestamp_' = current_timestamp_ + 1
            /\ Front(node_store_'[call'.frame_id].history_) =
                 current_timestamp_'
            /\ \A g \in Tracked :
                 \A i \in 1 .. Len(node_store_[g].history_) :
                   node_store_[g].history_[i] < current_timestamp_'
       /\ ~Returned("RecordAccess") =>
            current_timestamp_' = current_timestamp_]_vars

\* the third access returned on a replacer that tracks two records
C14_Witness ==
    /\ call.op = "RecordAccess"
    /\ ~call.threw
    /\ current_timestamp_ = 3
    /\ Cardinality(Tracked) = 2
    /\ Front(node_store_[call.frame_id].history_) = 3

----------------------------------------------------------------------------
(* C15 *)

\* what a call does when it runs alone from replacer state s
SeqVictims(s) ==
    LET evictable == {f \in DOMAIN s.node_store_ :
                        s.node_store_[f].is_evictable_}
        d(f) == BackwardKDistance(s.node_store_[f], s.current_timestamp_)
        front(f) == Front(s.node_store_[f].history_)
    IN  {v \in evictable :
           \A g \in evictable :
             d(g) < d(v) \/ (d(g) = d(v) /\ front(v) <= front(g))}

SeqResult(s, threw, ret) ==
    [node_store_ |-> s.node_store_,
     current_timestamp_ |-> s.current_timestamp_,
     curr_size_ |-> s.curr_size_, threw |-> threw, ret |-> ret]

SeqOutcomes(s, c) ==
    LET f == c.frame_id
        tracked == f \in DOMAIN s.node_store_
    IN  CASE c.op \in {"RecordAccess", "SetEvictable", "Remove"}
               /\ OutOfRange(f) -> {SeqResult(s, TRUE, 0)}
          [] c.op = "RecordAccess" /\ ~OutOfRange(f) ->
               {SeqResult(
                  [s EXCEPT !.current_timestamp_ = @ + 1,
                            !.node_store_ =
                               Accessed(@, f, s.current_timestamp_ + 1, k_)],
                  FALSE, 0)}
          [] c.op = "SetEvictable" /\ ~OutOfRange(f) ->
               IF tracked /\ s.node_store_[f].is_evictable_ # c.set_evictable
               THEN {SeqResult(
                       [s EXCEPT !.node_store_[f].is_evictable_ =
                                    c.set_evictable,
                                 !.curr_size_ = IF c.set_evictable THEN @ + 1
                                                ELSE @ - 1],
                       FALSE, 0)}
               ELSE {SeqResult(s, FALSE, 0)}
          [] c.op = "Remove" /\ ~OutOfRange(f) ->
               IF ~tracked THEN {SeqResult(s, FALSE, 0)}
               ELSE IF ~s.node_store_[f].is_evictable_
               THEN {SeqResult(s, TRUE, 0)}
               ELSE {SeqResult(
                       [s EXCEPT !.node_store_ = Erase(@, f),
                                 !.curr_size_ = @ - 1],
                       FALSE, 0)}
          [] c.op = "Evict" ->
               IF SeqVictims(s) = {} THEN {SeqResult(s, FALSE, NoVictim)}
               ELSE {SeqResult(
                       [s EXCEPT !.node_store_ = Erase(@, v),
                                 !.curr_size_ = @ - 1],
                       FALSE, v) : v \in SeqVictims(s)}
          [] c.op = "Size" -> {SeqResult(s, FALSE, s.curr_size_)}

\* the atomic methods of Spec are these sequential calls
SeqIsAtomic ==
    [][SeqResult(Found', call'.threw, call'.ret)
         \in SeqOutcomes(Found, call')]_vars

\* C15: the replacer state changes only in steps of the thread that holds
\* latch_; when a call leaves, the state and its outcome are those of the
\* same call run alone from the state found when it took latch_ (a call
\* that throws before the lock: from the current state); so the calls take
\* effect one at a time in the order in which they take latch_, and curr_size_
\* counts the evictable records whenever latch_ is free
C15_Linearizable ==
    [][/\ \A t \in Threads :
            /\ (thread[t].pc = "unlock" /\ thread'[t].pc = "idle") =>
                 /\ latch_ = t
                 /\ SeqResult(Found, thread[t].threw, thread[t].ret)
                      \in SeqOutcomes(thread[t].found, thread[t])
            /\ (thread[t].pc = "thrown" /\ thread'[t].pc = "idle") =>
                 SeqResult(Found', thread[t].threw, thread[t].ret)
                   \in SeqOutcomes(Found, thread[t])
            /\ (/\ thread'[t] # thread[t]
                /\ thread[t].pc \notin {"idle", "lock", "thrown"}) =>
                 latch_ = t
       /\ Found' # Found =>
            /\ latch_ \in Threads
            /\ latch_' = latch_
            /\ \A u \in Threads \ {latch_} : thread'[u] = thread[u]
       /\ latch_' = "unlocked" =>
            curr_size_' = Cardinality(EvictableFrames')]_vars

\* a thread holds latch_ between the erase and curr_size_-- of its Evict or
\* Remove, curr_size_ is one too large, and another thread waits for latch_
\* to call Size
C15_Witness ==
    \E t, u \in Threads :
      /\ latch_ = t
      /\ thread[t].pc = "dec"
      /\ curr_size_ = Cardinality(EvictableFrames) + 1
      /\ thread[u].pc = "lock"
      /\ thread[u].op = "Size"

----------------------------------------------------------------------------
(* C16 *)

----------------------------------------------------------------------------
(* C17 *)

\* C17: a RecordAccess leaves curr_size_ and the flag of an existing record
\* alone and creates a record that is not evictable; a record is evictable
\* in the next state without having been so before only through
\* SetEvictable(id, true)
C17_AccessKeepsEvictability ==
    [][/\ Returned("RecordAccess") =>
            /\ curr_size_' = curr_size_
            /\ \A f \in DOMAIN node_store_' :
                 node_store_'[f].is_evictable_ =
                   (f \in Tracked /\ node_store_[f].is_evictable_)
       /\ \A f \in DOMAIN node_store_' :
            (/\ node_store_'[f].is_evictable_
             /\ ~(f \in Tracked /\ node_store_[f].is_evictable_)) =>
              /\ Returned("SetEvictable")
              /\ call'.frame_id = f
              /\ call'.set_evictable]_vars

\* RecordAccess created a second record next to an evictable one: the new
\* record is not evictable and the size is still 1
C17_Witness ==
    /\ call.op = "RecordAccess"
    /\ ~call.threw
    /\ call.frame_id \in Tracked \ EvictableFrames
    /\ node_store_[call.frame_id].history_ = <<current_timestamp_>>
    /\ curr_size_ = 1
    /\ Cardinality(Tracked) = 2

----------------------------------------------------------------------------
(* C18 *)

\* C18: in every reachable state the scan of Evict() ends with the same
\* victim whatever the order in which it visits node_store_
C18_VictimOrderIndependent ==
    \A o1, o2 \in IterationOrders(node_store_) :
      Scan(o1, ScanStart).victim_frame_id =
        Scan(o2, ScanStart).victim_frame_id

\* Evict() returned one of two evictable frames that were tied at infinite
\* distance
C18_Witness ==
    /\ call.op = "Evict"
    /\ call.ret # NoVictim
    /\ Len(call.erased.history_) < k_
    /\ \E g \in EvictableFrames : Len(node_store_[g].history_) < k_

----------------------------------------------------------------------------
(* C19 *)

\* C19: every history is strictly decreasing from front to back, every
\* stored timestamp lies in 1 .. current_timestamp_, and no timestamp is
\* stored in two records
C19_HistoriesOrdered ==
    /\ \A f \in Tracked :
         LET h == node_store_[f].history_
         IN  /\ \A i, j \in 1 .. Len(h) : i < j => h[i] > h[j]
             /\ \A i \in 1 .. Len(h) : 1 <= h[i] /\ h[i] <= current_timestamp_
    /\ \A f, g \in Tracked :
         f # g =>
           \A i \in 1 .. Len(node_store_[f].history_) :
             \A j \in 1 .. Len(node_store_[g].history_) :
               node_store_[f].history_[i] # node_store_[g].history_[j]

\* two records hold two timestamps each, accessed in turns
C19_Witness ==
    /\ call.op = "RecordAccess"
    /\ ~call.threw
    /\ \E f, g \in Tracked :
         /\ Len(node_store_[f].history_) = 2
         /\ Len(node_store_[g].history_) = 2
         /\ Front(node_store_[f].history_) > Front(node_store_[g].history_)
         /\ Front(node_store_[g].history_) > Back(node_store_[f].history_)
         /\ Back(node_store_[f].history_) > Back(node_store_[g].history_)

----------------------------------------------------------------------------
(* C20 *)

\* C20: an Evict() at curr_size_ > 0 returns an evictable frame, takes
\* exactly that frame out of the evictable ones and lowers curr_size_ by 1,
\* so that two Evict() in a row return different frames; an Evict() at
\* curr_size_ = 0 returns nullopt
C20_EvictDrains ==
    [][call'.op = "Evict" =>
         /\ ~call'.threw
         /\ curr_size_ = Cardinality(EvictableFrames)
         /\ IF curr_size_ > 0
            THEN /\ call'.ret \in EvictableFrames
                 /\ EvictableFrames' = EvictableFrames \ {call'.ret}
                 /\ curr_size_' = curr_size_ - 1
                 /\ (call.op = "Evict" /\ call.ret # NoVictim) =>
                      call'.ret # call.ret
            ELSE /\ call'.ret = NoVictim
                 /\ EvictableFrames' = {}
                 /\ curr_size_' = 0]_vars

\* Evict() returned a frame and left the other evictable frame, size 1
C20_Witness ==
    /\ call.op = "Evict"
    /\ call.ret # NoVictim
    /\ curr_size_ = 1
    /\ \E g \in Tracked : g # call.ret /\ EvictableFrames = {g}

----------------------------------------------------------------------------
\* C21: a replacer constructed with k = 1 behaves like a plain LRU replacer
\* given the same calls: after every call the two have thrown or returned
\* alike (so every Evict returned the evictable frame whose most recent
\* RecordAccess is the oldest, and every Size the same number), they track
\* the same frames, hold the same ones evictable, and curr_size_ is the
\* number of the reference's evictable frames.
C21_KOneIsLRU ==
    k_ = 1 =>
      /\ call.op # "Construct" => (call.threw = lru.threw /\ call.ret = lru.ret)
      /\ Tracked = LruTracked(lru)
      /\ EvictableFrames = lru.evictable
      /\ curr_size_ = Cardinality(lru.evictable)

\* an Evict at k = 1, after three accesses to two frames, took the frame the
\* reference took and left a more recently accessed evictable frame behind
C21_Witness ==
    /\ k_ = 1
    /\ call.op = "Evict"
    /\ call.ret # NoVictim
    /\ lru.ret = call.ret
    /\ current_timestamp_ >= 3
    /\ \E g \in EvictableFrames :
         Front(node_store_[g].history_) > Front(call.erased.history_)

====
